---------------------------- MODULE Spec2Model ----------------------------
(***************************************************************************)
(* partdb: a command-line catalogue of storage locations and the parts     *)
(* kept in them (src/src/partdb/main.py).  Every command opens one         *)
(* psycopg connection block, i.e. one transaction that commits when the    *)
(* block ends normally and rolls back when an exception leaves it.  The     *)
(* model has one action per command; the state is the two tables, the      *)
(* SERIAL sequence of parts.id, and what the last command did and showed.   *)
(*                                                                         *)
(* Text (location names, descriptions, queries) is a sequence of one-      *)
(* character strings.  An optional command argument is <<>> when the       *)
(* argument is not given and <<v>> when it is given as v.  A nullable      *)
(* column is <<>> for NULL and <<v>> for the value v.                      *)
(***************************************************************************)
EXTENDS Integers, Sequences, FiniteSets, TLC

VARIABLES locations, parts, nextId, last, err, rows, echoed

vars == <<locations, parts, nextId, last, err, rows, echoed>>

---------------------------------------------------------------------------
(* Bounds of the model *)

\* ids the parts.id sequence hands out in Spec
MaxId == 2
\* rows of locations.csv and of parts.csv that loaddb reads in Spec
MaxCsvRows == 1
\* parts of the largest catalogue SpecSearch ranks
MaxRankParts == 12
\* parts of the catalogues SpecSearch places among all sets of locations
MaxPlacedParts == 2

(* Program constants *)

\* LIMIT 10 of the semantic search query
Limit == 10
\* [:8191], the longest text sent to the embedding provider
MaxChars == 8191

---------------------------------------------------------------------------
(* Text *)

None == <<>>
Some(v) == <<v>>

\* Python truthiness of an optional string argument: None and "" are false
Truthy(arg) == arg # None /\ Len(arg[1]) > 0

Min(a, b) == IF a < b THEN a ELSE b

Code(c) ==
  CASE c = " " -> 1
    [] c = "\n" -> 0
    [] c = "a" -> 2
    [] c = "b" -> 3
    [] OTHER -> 4

\* s < t in the order of the text comparison of the store
RECURSIVE TextLess(_, _)
TextLess(s, t) ==
  IF Len(t) = 0 THEN FALSE
  ELSE IF Len(s) = 0 THEN TRUE
  ELSE IF Code(s[1]) # Code(t[1]) THEN Code(s[1]) < Code(t[1])
  ELSE TextLess(Tail(s), Tail(t))

IsSeparator(c) == c = " " \/ c = "\n"

IsLetter(d, i) == i \in 1..Len(d) /\ ~IsSeparator(d[i])

\* the words of a text: its maximal runs of letters
Words(d) ==
  { SubSeq(d, ij[1], ij[2]) :
      ij \in { x \in (1..Len(d)) \X (1..Len(d)) :
                 /\ x[1] <= x[2]
                 /\ \A k \in x[1]..x[2] : IsLetter(d, k)
                 /\ ~IsLetter(d, x[1] - 1)
                 /\ ~IsLetter(d, x[2] + 1) } }

\* to_tsvector(description) @@ websearch_to_tsquery(query): every word of the
\* query is a word of the description; a query without words matches nothing
Matches(description, query) ==
  Words(query) # {} /\ Words(query) \subseteq Words(description)

\* description.replace("\n", " ")[:8191]
Normalize(d) ==
  [i \in 1..Min(Len(d), MaxChars) |-> IF d[i] = "\n" THEN " " ELSE d[i]]

RECURSIVE Weight(_)
Weight(d) ==
  IF Len(d) = 0 THEN 0
  ELSE (CASE d[1] = "a" -> 1 [] d[1] = "b" -> 2 [] d[1] = "\n" -> 4 [] OTHER -> 0)
       + Weight(Tail(d))

\* The provider's answer for a text.  A vector is modelled by its direction,
\* an angle in steps from 0; the provider is a function of the text it is sent.
Provider(text) == Weight(text)

\* _get_embedding, when the provider answers
Embed(d) == Some(Provider(Normalize(d)))

NoEmbedding == None

\* embedding <=> query: the cosine distance grows with the angle between the
\* two directions; NULL when the stored embedding is NULL
Distance(embedding, query) ==
  IF embedding = NoEmbedding THEN None
  ELSE Some(IF embedding[1] < query[1] THEN query[1] - embedding[1]
            ELSE embedding[1] - query[1])

---------------------------------------------------------------------------
(* The store: the two tables of initdb and the statements the commands run  *)
(* on them.  A statement yields the store it leaves and the error it raises. *)

Store(locs, prts) == [locations |-> locs, parts |-> prts]

Done(db) == [error |-> "ok", db |-> db]
Raise(e, db) == [error |-> e, db |-> db]

Row(location, description, embedding) ==
  [location |-> location, description |-> description, embedding |-> embedding]

\* FOREIGN KEY (location) REFERENCES locations(name), seen from a row of
\* locations: some row of parts references it
Referenced(db, name) ==
  \E i \in DOMAIN db.parts : db.parts[i].location = name

\* INSERT INTO locations (name) VALUES (%s): name is the PRIMARY KEY
InsertLocation(db, name) ==
  IF name \in db.locations THEN Raise("UniqueViolation", db)
  ELSE Done(Store(db.locations \cup {name}, db.parts))

\* (mutant) the INSERT of add without its ON CONFLICT clause
InsertLocationPlain(db, name) ==
  IF name \in db.locations THEN Raise("UniqueViolation", db)
  ELSE Done(Store(db.locations \cup {name}, db.parts))

\* (mutant) add without its INSERT INTO locations
InsertLocationSkipped(db, name) == Done(db)

\* INSERT INTO locations (name) VALUES (%s) ON CONFLICT DO NOTHING
InsertLocationOnConflictDoNothing(db, name) ==
  IF name \in db.locations THEN Done(db)
  ELSE Done(Store(db.locations \cup {name}, db.parts))

\* INSERT INTO parts (...) VALUES (...), the id drawn from the sequence
InsertPart(db, id, location, description, embedding) ==
  IF location \notin db.locations THEN Raise("ForeignKeyViolation", db)
  ELSE Done(Store(db.locations,
                  [i \in DOMAIN db.parts \cup {id} |->
                     IF i = id THEN Row(location, description, embedding)
                     ELSE db.parts[i]]))

\* DELETE FROM locations WHERE name = %s
DeleteLocation(db, name) ==
  IF Referenced(db, name) THEN Raise("ForeignKeyViolation", db)
  ELSE Done(Store(db.locations \ {name}, db.parts))

\* DELETE FROM parts WHERE id = %s
DeletePart(db, id) ==
  Done(Store(db.locations, [i \in DOMAIN db.parts \ {id} |-> db.parts[i]]))

\* (mutant) parts.location without its FOREIGN KEY
UpdateLocationUnchecked(db, id, location) ==
  Done(Store(db.locations,
             [i \in DOMAIN db.parts |->
                IF i = id THEN [db.parts[i] EXCEPT !.location = location]
                ELSE db.parts[i]]))

\* UPDATE parts SET location = %s WHERE id = %s
UpdateLocation(db, id, location) ==
  IF id \in DOMAIN db.parts /\ location \notin db.locations
  THEN Raise("ForeignKeyViolation", db)
  ELSE Done(Store(db.locations,
                  [i \in DOMAIN db.parts |->
                     IF i = id THEN [db.parts[i] EXCEPT !.location = location]
                     ELSE db.parts[i]]))

\* (mutant) UPDATE parts SET description = %s WHERE id = %s
UpdateDescriptionOnly(db, id, description, embedding) ==
  Done(Store(db.locations,
             [i \in DOMAIN db.parts |->
                IF i = id THEN [db.parts[i] EXCEPT !.description = description]
                ELSE db.parts[i]]))

\* UPDATE parts SET description = %s, embedding = %s WHERE id = %s
UpdateDescription(db, id, description, embedding) ==
  Done(Store(db.locations,
             [i \in DOMAIN db.parts |->
                IF i = id
                THEN [db.parts[i] EXCEPT !.description = description,
                                         !.embedding = embedding]
                ELSE db.parts[i]]))

\* UPDATE parts SET embedding = %s WHERE id = %s
UpdateEmbedding(db, id, embedding) ==
  Done(Store(db.locations,
             [i \in DOMAIN db.parts |->
                IF i = id THEN [db.parts[i] EXCEPT !.embedding = embedding]
                ELSE db.parts[i]]))

---------------------------------------------------------------------------
(* The queries of search *)

\* ORDER BY name DESC LIMIT 1 / ORDER BY name LIMIT 1 over a set of names
Greatest(names) ==
  IF names = {} THEN None
  ELSE Some(CHOOSE n \in names : \A m \in names : m = n \/ TextLess(m, n))

Smallest(names) ==
  IF names = {} THEN None
  ELSE Some(CHOOSE n \in names : \A m \in names : m = n \/ TextLess(n, m))

\* (mutant) the subquery without AND NOT EXISTS (SELECT 1 FROM parts ...)
PrevLocation(db, location) ==
  Greatest({ n \in db.locations : TextLess(n, location) })

\* the subquery AS prev_empty of a row whose part is at location
PrevEmpty(db, location) ==
  Greatest({ n \in db.locations : TextLess(n, location) /\ ~Referenced(db, n) })

\* the subquery AS next_empty
NextEmpty(db, location) ==
  Smallest({ n \in db.locations : TextLess(location, n) /\ ~Referenced(db, n) })

\* one row of the result: the part, its distance and its two empty neighbours
ResultRow(db, id, distance) ==
  [id |-> id,
   description |-> db.parts[id].description,
   location |-> db.parts[id].location,
   distance |-> distance,
   prev_empty |-> PrevEmpty(db, db.parts[id].location),
   next_empty |-> NextEmpty(db, db.parts[id].location)]

\* (mutant) ORDER BY distance DESC
BeforeDescending(a, b) == b # None /\ (a = None \/ b[1] < a[1])

\* a sorts strictly before b under ORDER BY distance: ascending, NULLs last
Before(a, b) == a # None /\ (b = None \/ a[1] < b[1])

\* ORDER BY distance LIMIT n over the rows ids: every sequence the sort may
\* produce (rows of equal distance come in any order)
RECURSIVE OrderByLimit(_, _, _)
OrderByLimit(ids, distance, n) ==
  IF n = 0 \/ ids = {} THEN {<<>>}
  ELSE LET first == { i \in ids : \A j \in ids : ~Before(distance[j], distance[i]) }
       IN  UNION { { <<i>> \o rest : rest \in OrderByLimit(ids \ {i}, distance, n - 1) } :
                   i \in first }

\* every order in which a query without ORDER BY may return the rows ids
Orderings(ids) ==
  { f \in [1..Cardinality(ids) -> ids] : \A i, j \in DOMAIN f : f[i] = f[j] => i = j }

\* SELECT ... FROM parts p WHERE to_tsvector(description) @@ websearch_to_tsquery(%s)
FullTextResults(db, query) ==
  { [k \in DOMAIN order |-> ResultRow(db, order[k], None)] :
      order \in Orderings({ i \in DOMAIN db.parts :
                             Matches(db.parts[i].description, query) }) }

\* SELECT ..., embedding <=> %s AS distance, ... FROM parts p ORDER BY distance LIMIT 10
SemanticResults(db, embedding) ==
  LET distance == [i \in DOMAIN db.parts |-> Distance(db.parts[i].embedding, embedding)]
  IN  { [k \in DOMAIN order |-> ResultRow(db, order[k], distance[order[k]])] :
          order \in OrderByLimit(DOMAIN db.parts, distance, Limit) }

\* the rows echoed by the loop of the semantic search before f"{row[3]:.3f}"
\* meets a distance that is None and raises TypeError
Printable(result) ==
  IF \E k \in DOMAIN result : result[k].distance = None
  THEN (CHOOSE k \in DOMAIN result :
          /\ result[k].distance = None
          /\ \A j \in 1..(k - 1) : result[j].distance # None) - 1
  ELSE Len(result)

---------------------------------------------------------------------------
(* The commands *)

Current == Store(locations, parts)

\* what the last command was: its name, its arguments, whether the provider
\* raised in it, and (update_embeddings) the parts it had swept
Command(op, location, id, description, full_text, failed, swept) ==
  [op |-> op, location |-> location, id |-> id, description |-> description,
   full_text |-> full_text, failed |-> failed, swept |-> swept]

\* (mutant) a connection in autocommit mode: what ran before the exception stays
TransactionAutocommit(result) ==
  /\ locations' = result.db.locations
  /\ parts' = result.db.parts
  /\ err' = result.error

\* with psycopg.connect(...) as conn: commit when the block ends normally,
\* roll back when an exception leaves it
Transaction(result) ==
  /\ locations' = IF result.error = "ok" THEN result.db.locations ELSE locations
  /\ parts' = IF result.error = "ok" THEN result.db.parts ELSE parts
  /\ err' = result.error

NoOutput == rows' = <<>> /\ echoed' = 0

\* initdb: two empty tables, the sequence at its first value
Init ==
  /\ locations = {}
  /\ parts = <<>>
  /\ nextId = 1
  /\ last = Command("initdb", None, None, None, FALSE, FALSE, {})
  /\ err = "ok"
  /\ rows = <<>>
  /\ echoed = 0

\* add LOCATION [DESCRIPTION]; answers: the provider answers the request
Add(location, description, answers) ==
  LET inserted == InsertLocationOnConflictDoNothing(Current, location)
      result ==
        IF Truthy(description)
        THEN IF answers
             THEN InsertPart(inserted.db, nextId, location, description[1],
                             Embed(description[1]))
             ELSE Raise("APIError", inserted.db)
        ELSE inserted
  IN  /\ Transaction(result)
      /\ nextId' = IF Truthy(description) /\ answers THEN nextId + 1 ELSE nextId
      /\ last' = Command("add", Some(location), None, description, FALSE,
                         Truthy(description) /\ ~answers, {})
      /\ NoOutput

\* delete [--location LOCATION] [--id ID]
Delete(location, id) ==
  LET result ==
        IF ~Truthy(location) /\ id = None
        THEN Raise("ClickException", Current)
        ELSE IF Truthy(location) /\ id # None
        THEN Raise("ClickException", Current)
        ELSE IF Truthy(location)
        THEN DeleteLocation(Current, location[1])
        ELSE DeletePart(Current, id[1])
  IN  /\ Transaction(result)
      /\ last' = Command("delete", location, id, None, FALSE, FALSE, {})
      /\ NoOutput
      /\ UNCHANGED nextId

RECURSIVE LoadLocations(_, _)
\* for row in reader: INSERT INTO locations (name) VALUES (%s)
LoadLocations(db, csv) ==
  IF csv = <<>> THEN Done(db)
  ELSE LET result == InsertLocation(db, Head(csv))
       IN  IF result.error # "ok" THEN result
           ELSE LoadLocations(result.db, Tail(csv))

RECURSIVE LoadParts(_, _, _)
\* for row in reader: INSERT INTO parts (location, description) VALUES (%s, %s);
\* every INSERT draws an id from the sequence, which no rollback gives back
LoadParts(db, id, csv) ==
  IF csv = <<>> THEN [error |-> "ok", db |-> db, nextId |-> id]
  ELSE LET result == InsertPart(db, id, Head(csv)[1], Head(csv)[2], NoEmbedding)
       IN  IF result.error # "ok"
           THEN [error |-> result.error, db |-> db, nextId |-> id + 1]
           ELSE LoadParts(result.db, id + 1, Tail(csv))

\* loaddb: the rows of locations.csv, then the rows of parts.csv
LoadDb(csvLocations, csvParts) ==
  LET loaded == LoadLocations(Current, csvLocations)
      result == IF loaded.error # "ok"
                THEN [error |-> loaded.error, db |-> Current, nextId |-> nextId]
                ELSE LoadParts(loaded.db, nextId, csvParts)
  IN  /\ Transaction(result)
      /\ nextId' = result.nextId
      /\ last' = Command("loaddb", None, None, None, FALSE, FALSE, {})
      /\ NoOutput

\* move ID LOCATION
Move(id, location) ==
  /\ Transaction(UpdateLocation(Current, id, location))
  /\ last' = Command("move", Some(location), Some(id), None, FALSE, FALSE, {})
  /\ NoOutput
  /\ UNCHANGED nextId

\* update ID DESCRIPTION
Update(id, description, answers) ==
  LET result == IF answers
                THEN UpdateDescription(Current, id, description, Embed(description))
                ELSE Raise("APIError", Current)
  IN  /\ Transaction(result)
      /\ last' = Command("update", None, Some(id), Some(description), FALSE,
                         ~answers, {})
      /\ NoOutput
      /\ UNCHANGED nextId

RECURSIVE SweepSkipping(_, _, _)
\* (mutant) a sweep that skips the row whose request fails and goes on
SweepSkipping(db, order, failAt) ==
  IF order = <<>> THEN Done(db)
  ELSE IF failAt = 1 THEN SweepSkipping(db, Tail(order), 0)
  ELSE SweepSkipping(UpdateEmbedding(db, Head(order),
                                     Embed(db.parts[Head(order)].description)).db,
                     Tail(order), failAt - 1)

RECURSIVE Sweep(_, _, _)
\* for part_row in bar: the rows in the order fetched; failAt is the place of
\* the row at which the provider raises (0: it answers every request)
Sweep(db, order, failAt) ==
  IF order = <<>> THEN Done(db)
  ELSE IF failAt = 1 THEN Raise("APIError", db)
  ELSE Sweep(UpdateEmbedding(db, Head(order),
                             Embed(db.parts[Head(order)].description)).db,
             Tail(order), failAt - 1)

\* update_embeddings
UpdateEmbeddings(order, failAt) ==
  /\ Transaction(Sweep(Current, order, failAt))
  /\ last' = Command("update_embeddings", None,
                     IF failAt = 0 THEN None ELSE Some(order[failAt]), None,
                     FALSE, failAt # 0,
                     { order[k] : k \in 1..(IF failAt = 0 THEN Len(order)
                                            ELSE failAt - 1) })
  /\ NoOutput
  /\ UNCHANGED nextId

\* search --full-text DESCRIPTION
SearchFullText(description) ==
  /\ \E result \in FullTextResults(Current, description) :
       rows' = result /\ echoed' = Len(result)
  /\ err' = "ok"
  /\ last' = Command("search", None, None, Some(description), TRUE, FALSE, {})
  /\ UNCHANGED <<locations, parts, nextId>>

\* search DESCRIPTION
SearchSemantic(description, answers) ==
  /\ IF answers
     THEN \E result \in SemanticResults(Current, Embed(description)) :
            /\ rows' = result
            /\ echoed' = Printable(result)
            /\ err' = IF Printable(result) < Len(result) THEN "TypeError" ELSE "ok"
     ELSE rows' = <<>> /\ echoed' = 0 /\ err' = "APIError"
  /\ last' = Command("search", None, None, Some(description), FALSE, ~answers, {})
  /\ UNCHANGED <<locations, parts, nextId>>

---------------------------------------------------------------------------
(* Spec: every command, on a small catalogue *)

Names == { <<>>, <<"a">>, <<"b">> }
AddDescriptions == { <<>>, <<"a">> }
UpdateDescriptions == { <<"a">>, <<"b">> }
CsvDescriptions == { <<"a">> }
Queries == { <<"a">>, <<"b">> }
Ids == 1..MaxId

Optional(S) == {None} \cup { Some(v) : v \in S }

SeqsUpTo(S, n) == UNION { [1..k -> S] : k \in 0..n }

Next ==
  \/ \E l \in Names, d \in Optional(AddDescriptions), answers \in BOOLEAN :
       /\ Truthy(d) => nextId <= MaxId
       /\ ~Truthy(d) => answers
       /\ Add(l, d, answers)
  \/ \E l \in Optional(Names), i \in Optional(Ids) : Delete(l, i)
  \/ \E ls \in SeqsUpTo(Names, MaxCsvRows),
        ps \in SeqsUpTo(Names \X CsvDescriptions, MaxCsvRows) :
       /\ nextId + Len(ps) <= MaxId + 1
       /\ LoadDb(ls, ps)
  \/ \E i \in Ids, l \in Names : Move(i, l)
  \/ \E i \in Ids, d \in UpdateDescriptions, answers \in BOOLEAN :
       Update(i, d, answers)
  \/ \E order \in Orderings(DOMAIN parts), failAt \in 0..Cardinality(DOMAIN parts) :
       UpdateEmbeddings(order, failAt)
  \/ \E q \in Queries : SearchFullText(q)
  \/ \E q \in Queries, answers \in BOOLEAN : SearchSemantic(q, answers)

Spec == Init /\ [][Next]_vars

---------------------------------------------------------------------------
(* SpecSearch: the two searches, on catalogues drawn from two families.  A  *)
(* catalogue of the first family has few parts, placed in every way in      *)
(* every set of locations; one of the second has up to MaxRankParts parts   *)
(* whose descriptions run through RankKinds.  A kind is a description and   *)
(* whether the part has its embedding (a part loaded by loaddb has none).   *)

PlacementNames == { <<>>, <<"a">>, <<"a", "a">>, <<"b">> }
PlacedKinds == { <<<<"a">>, TRUE>>, <<<<"b">>, FALSE>> }

RankKinds ==
  << <<<<"a">>, TRUE>>, <<<<"b">>, TRUE>>, <<<<"a", "b">>, TRUE>>,
     <<<<"b", "b">>, TRUE>>, <<<<"a", "\n", "b", "b">>, TRUE>>,
     <<<<"b", "b", "b">>, TRUE>>, <<<<"b">>, FALSE>>,
     <<<<"b", "b", "b", "a">>, TRUE>>, <<<<"b", "b", "b", "b">>, TRUE>> >>

SearchQueries == { <<"a">>, <<"b", "b", "b", "\n", "a">> }

KindRow(location, kind) ==
  Row(location, kind[1], IF kind[2] THEN Embed(kind[1]) ELSE NoEmbedding)

InitSearch ==
  /\ \/ \E locs \in SUBSET PlacementNames, n \in 0..MaxPlacedParts :
          \E placed \in [1..n -> locs \X PlacedKinds] :
             /\ locations = locs
             /\ parts = [i \in 1..n |-> KindRow(placed[i][1], placed[i][2])]
     \/ \E n \in 0..MaxRankParts, k \in 0..(Len(RankKinds) - 1) :
          /\ locations = { <<"a">>, <<"b">> }
          /\ parts = [i \in 1..n |->
                        KindRow(<<"a">>, RankKinds[((i + k) % Len(RankKinds)) + 1])]
  /\ nextId = Cardinality(DOMAIN parts) + 1
  /\ last = Command("loaddb", None, None, None, FALSE, FALSE, {})
  /\ err = "ok"
  /\ rows = <<>>
  /\ echoed = 0

NextSearch ==
  \/ \E q \in SearchQueries : SearchFullText(q)
  \/ \E q \in SearchQueries, answers \in BOOLEAN : SearchSemantic(q, answers)

SpecSearch == InitSearch /\ [][NextSearch]_vars

---------------------------------------------------------------------------
(* The claims *)

Stored(i) == i \in DOMAIN parts

\* C1: after every command each stored part's location is the name of a row
\* of locations; a move to a name that is no location changes neither table
\* and, when the id is that of a stored part, raises the foreign-key violation.
C1_ReferentialIntegrity ==
  [][ /\ \A i \in DOMAIN parts' : parts'[i].location \in locations'
      /\ (last'.op = "move" /\ last'.location[1] \notin locations)
           => /\ parts' = parts
              /\ locations' = locations
              /\ Stored(last'.id[1]) => err' = "ForeignKeyViolation" ]_vars

C1_Witness ==
  /\ last.op = "move"
  /\ err = "ForeignKeyViolation"
  /\ Stored(last.id[1])
  /\ last.location[1] \notin locations
  /\ parts[last.id[1]].location \in locations

\* C2: delete --location L of an existing location L removes L and raises
\* nothing when no part references L, and raises the foreign-key violation,
\* leaving both tables as they were, when a part references L.
C2_DeleteLocation ==
  [][ (/\ last'.op = "delete"
       /\ last'.location # None
       /\ last'.id = None
       /\ last'.location[1] \in locations)
        => IF Referenced(Current, last'.location[1])
           THEN err' = "ForeignKeyViolation" /\ locations' = locations /\ parts' = parts
           ELSE /\ err' = "ok"
                /\ locations' = locations \ {last'.location[1]}
                /\ parts' = parts ]_vars

\* The statement of C2 for the locations whose name is not the empty string.
DeleteNamedLocation ==
  [][ (/\ last'.op = "delete"
       /\ Truthy(last'.location)
       /\ last'.id = None
       /\ last'.location[1] \in locations)
        => IF Referenced(Current, last'.location[1])
           THEN err' = "ForeignKeyViolation" /\ locations' = locations /\ parts' = parts
           ELSE /\ err' = "ok"
                /\ locations' = locations \ {last'.location[1]}
                /\ parts' = parts ]_vars

Empty(n) == n \in locations /\ \A i \in DOMAIN parts : parts[i].location # n

\* C3: in the result of either search, a row's prev_empty is the greatest
\* location below the row's location that no part references and its
\* next_empty the smallest such location above it (None when there is none);
\* neither is the row's own location; all of it read off the tables as they
\* are when the search ends.
C3_EmptyNeighbours ==
  last.op = "search" =>
    \A k \in DOMAIN rows :
      LET row == rows[k]
          below == { n \in locations : Empty(n) /\ TextLess(n, row.location) }
          above == { n \in locations : Empty(n) /\ TextLess(row.location, n) }
      IN  /\ Stored(row.id) /\ row.location = parts[row.id].location
          /\ IF below = {} THEN row.prev_empty = None
             ELSE /\ row.prev_empty # None
                  /\ row.prev_empty[1] \in below
                  /\ \A m \in below : ~TextLess(row.prev_empty[1], m)
          /\ IF above = {} THEN row.next_empty = None
             ELSE /\ row.next_empty # None
                  /\ row.next_empty[1] \in above
                  /\ \A m \in above : ~TextLess(m, row.next_empty[1])
          /\ row.prev_empty # Some(row.location)
          /\ row.next_empty # Some(row.location)

\* a row whose nearest empty location below lies beyond an occupied one and
\* is not the only empty one below, and that has no empty location above
C3_Witness ==
  /\ last.op = "search"
  /\ \E k \in DOMAIN rows :
       /\ rows[k].prev_empty # None
       /\ rows[k].next_empty = None
       /\ \E z \in locations :
            /\ ~Empty(z)
            /\ TextLess(rows[k].prev_empty[1], z)
            /\ TextLess(z, rows[k].location)
       /\ \E y \in locations : Empty(y) /\ TextLess(y, rows[k].prev_empty[1])

Returned == { rows[k].id : k \in DOMAIN rows }

QueryDistance(i) == Distance(parts[i].embedding, Embed(last.description[1]))

\* C4: the result of a semantic search has at most 10 rows; each row carries
\* the distance of its part to the query; rows that have a distance are in
\* non-decreasing order of it and come before the rows that have none; no
\* part left out is strictly nearer to the query than a part in the result.
C4_NearestTen ==
  (last.op = "search" /\ ~last.full_text) =>
    /\ Len(rows) <= 10
    /\ \A k \in DOMAIN rows :
         Stored(rows[k].id) /\ rows[k].distance = QueryDistance(rows[k].id)
    /\ \A j, k \in DOMAIN rows :
         j < k => /\ rows[j].id # rows[k].id
                  /\ rows[k].distance # None => rows[j].distance # None
                  /\ (rows[j].distance # None /\ rows[k].distance # None)
                       => rows[j].distance[1] <= rows[k].distance[1]
    /\ \A i \in DOMAIN parts \ Returned :
         \A k \in DOMAIN rows :
           (QueryDistance(i) # None /\ rows[k].distance # None)
             => QueryDistance(i)[1] >= rows[k].distance[1]

\* the limit cuts the result between two parts of equal distance, and the
\* rows kept differ in distance
C4_Witness ==
  /\ last.op = "search" /\ ~last.full_text
  /\ Len(rows) = Limit
  /\ rows[Limit].distance # None
  /\ rows[1].distance[1] < rows[Limit].distance[1]
  /\ \E i \in DOMAIN parts \ Returned : QueryDistance(i) = rows[Limit].distance

\* C5: the result of a semantic search holds no part whose embedding is NULL.
C5_NoAbsentEmbedding ==
  (last.op = "search" /\ ~last.full_text) =>
    \A k \in DOMAIN rows : parts[rows[k].id].embedding # NoEmbedding

\* C6 as claimed: add LOCATION DESCRIPTION with a LOCATION that is no location
\* raises the foreign-key violation and leaves both tables as they were.
C6_RejectsUnknownLocation ==
  [][ (/\ last'.op = "add"
       /\ Truthy(last'.description)
       /\ ~last'.failed
       /\ last'.location[1] \notin locations)
        => err' = "ForeignKeyViolation" /\ locations' = locations /\ parts' = parts ]_vars

\* C6 as amended: add LOCATION DESCRIPTION with a LOCATION that is no location
\* never raises a foreign-key violation: when the provider answers, the
\* location is created and the part, with the next id, in it; when the
\* provider raises, neither is.
C6_AddCreatesLocation ==
  [][ (/\ last'.op = "add"
       /\ Truthy(last'.description)
       /\ last'.location[1] \notin locations)
        => IF last'.failed
           THEN err' = "APIError" /\ locations' = locations /\ parts' = parts
           ELSE /\ err' = "ok"
                /\ locations' = locations \cup {last'.location[1]}
                /\ DOMAIN parts' = DOMAIN parts \cup {nextId}
                /\ ~Stored(nextId)
                /\ parts'[nextId].location = last'.location[1]
                /\ parts'[nextId].description = last'.description[1]
                /\ \A i \in DOMAIN parts : parts'[i] = parts[i] ]_vars

\* the part just added is the only one at its location, which no loaddb and
\* no earlier add can then have created for another part
C6_Witness ==
  /\ last.op = "add" /\ err = "ok" /\ Truthy(last.description)
  /\ DOMAIN parts = {nextId - 1}
  /\ nextId = 2
  /\ parts[1].location = last.location[1]
  /\ locations = {last.location[1]}

\* C7 as claimed: a successful update of a part that has an embedding stores
\* the new description and leaves the embedding what it was.
C7_StaleAfterUpdate ==
  [][ (/\ last'.op = "update" /\ err' = "ok"
       /\ Stored(last'.id[1])
       /\ parts[last'.id[1]].embedding # NoEmbedding)
        => /\ parts'[last'.id[1]].description = last'.description[1]
           /\ parts'[last'.id[1]].embedding = parts[last'.id[1]].embedding ]_vars

\* C7 as amended: a successful update stores the new description together
\* with the embedding of that description; no stored embedding is ever that
\* of another text than the part's description; and update_embeddings, when
\* it succeeds, leaves every part with the embedding of its description.
C7_EmbeddingFollowsDescription ==
  [][ /\ (last'.op = "update" /\ err' = "ok" /\ Stored(last'.id[1]))
           => parts'[last'.id[1]] =
                [parts[last'.id[1]] EXCEPT !.description = last'.description[1],
                                           !.embedding = Embed(last'.description[1])]
      /\ (last'.op = "update_embeddings" /\ err' = "ok")
           => \A i \in DOMAIN parts' :
                parts'[i].embedding = Embed(parts'[i].description)
      /\ \A i \in DOMAIN parts' :
           parts'[i].embedding \in {NoEmbedding, Embed(parts'[i].description)} ]_vars

\* a part created by add (descriptions of add and loaddb are "a") whose
\* description an update has replaced by "b"
C7_Witness ==
  /\ last.op = "update" /\ err = "ok"
  /\ Stored(last.id[1])
  /\ last.description = Some(<<"b">>)
  /\ parts[last.id[1]].description = <<"b">>
  /\ parts[last.id[1]].embedding = Embed(<<"b">>)
  /\ Embed(<<"b">>) # Embed(<<"a">>)

\* C8: when the provider raises during add, update or update_embeddings, the
\* command ends with that error and both tables are what they were.
C8_ProviderFailureChangesNothing ==
  [][ (last'.op \in {"add", "update", "update_embeddings"} /\ last'.failed)
        => err' = "APIError" /\ locations' = locations /\ parts' = parts ]_vars

\* add of a new location with a description: the INSERT INTO locations had
\* run when the provider raised, and the location is not there
C8_Witness ==
  /\ last.op = "add" /\ last.failed /\ err = "APIError"
  /\ last.location[1] \notin locations

\* C9 as claimed: after an update_embeddings in which the provider raised for
\* one part, every other part has the embedding of its description.
C9_BatchTolerant ==
  (last.op = "update_embeddings" /\ last.failed) =>
    \A i \in DOMAIN parts \ {last.id[1]} :
      parts[i].embedding = Embed(parts[i].description)

\* C9 as amended: update_embeddings is one transaction: when the provider
\* raises for a part the command ends with that error and no embedding has
\* changed, neither of the parts swept before that part nor of those after;
\* when it never raises every part gets the embedding of its description.
C9_SweepIsOneTransaction ==
  [][ last'.op = "update_embeddings"
        => /\ locations' = locations
           /\ DOMAIN parts' = DOMAIN parts
           /\ IF last'.failed
              THEN err' = "APIError" /\ parts' = parts
              ELSE /\ err' = "ok"
                   /\ \A i \in DOMAIN parts :
                        parts'[i] = [parts[i] EXCEPT
                                       !.embedding = Embed(parts[i].description)] ]_vars

\* the provider raised after a part without embedding had been swept, and
\* that part still has none
C9_Witness ==
  /\ last.op = "update_embeddings" /\ last.failed /\ err = "APIError"
  /\ \E i \in last.swept : Stored(i) /\ parts[i].embedding = NoEmbedding

\* C10: add LOCATION without a description raises nothing, leaves parts as it
\* was and leaves locations with LOCATION in it and otherwise as it was: when
\* LOCATION was there already, nothing changes.
C10_AddLocationIdempotent ==
  [][ (last'.op = "add" /\ ~Truthy(last'.description))
        => /\ err' = "ok"
           /\ parts' = parts
           /\ locations' = locations \cup {last'.location[1]}
           /\ last'.location[1] \in locations => locations' = locations ]_vars

\* the location added holds a part, so it was there before this add, which
\* inserts no part
C10_Witness ==
  /\ last.op = "add" /\ ~Truthy(last.description) /\ err = "ok"
  /\ \E i \in DOMAIN parts : parts[i].location = last.location[1]

============================================================================
